---- MODULE Spec2Model ----
(***************************************************************************)
(* Recipient resolution and trigger dispatch of the events API:            *)
(*   EventsController   (trackEvent, trackEventToAll and their helpers)    *)
(*   MapTriggerRecipients (execute, getSubscribersFromAllTopics, ...)      *)
(* both in src/apps/api/src/app/events/events.controller.ts.               *)
(*                                                                         *)
(* One operation runs at a time (op); pc is its position.  The external    *)
(* collaborators (transaction validator, workflow engine, topic            *)
(* subscribers use case, log use case) answer nondeterministically.        *)
(***************************************************************************)
EXTENDS Integers, Sequences, FiniteSets, TLC

VARIABLES
    op,                 \* "none", "trackEvent", "trackEventToAll", "execute"
    pc,                 \* position inside the running operation
    body,               \* request body of the controller operation
    transactionId,      \* const transactionId (lines 69, 121)
    generated,          \* value returned by uuidv4(), <<>> when not called
    mappedSubscribers,  \* const mappedSubscribers (line 77)
    mappedActor,        \* const mappedActor (lines 78, 123), <<>> = undefined
    validatorCalls,     \* arguments of validateTransactionIdProperty calls
    dispatched,         \* commands handed to TriggerEvent / TriggerEventToAll
    events,             \* calls made by the running operation, in order
    command,            \* MapTriggerRecipientsCommand of execute
    simpleSubscribers,  \* const simpleSubscribers (line 258)
    topics,             \* const topics (line 278)
    idx,                \* position of the for..of loop (line 282)
    topicSubscribers,   \* accumulator topicSubscribers (line 280)
    result,             \* value execute resolved with
    resolverCalls,      \* GetTopicSubscribersCommand of each resolver call
    outcomes,           \* answer of each resolver call
    logCalls,           \* CreateLogCommand of each createLog.execute call
    logStatus           \* state of the promise of each createLog call

vars == <<op, pc, body, transactionId, generated, mappedSubscribers,
          mappedActor, validatorCalls, dispatched, events, command,
          simpleSubscribers, topics, idx, topicSubscribers, result,
          resolverCalls, outcomes, logCalls, logStatus>>

ctlVars == <<body, transactionId, generated, mappedSubscribers, mappedActor,
             validatorCalls, dispatched>>

mapVars == <<command, simpleSubscribers, topics, idx, topicSubscribers,
             result, resolverCalls, outcomes, logCalls, logStatus>>

----------------------------------------------------------------------------
(* Bounds of the explored inputs *)

MaxTo == 2

MaxRecipients == 3

----------------------------------------------------------------------------
(* Values *)

\* a property that is not set
Undefined == "undefined"

\* TriggerRecipientsTypeEnum
SUBSCRIBER == "Subscriber"

TOPIC == "Topic"

\* a discriminator of a recipient kind this version does not know
UNKNOWN == "Segment"

\* a string recipient
Str(s) ==
    [isString |-> TRUE, value |-> s, type |-> Undefined,
     subscriberId |-> Undefined, topicId |-> Undefined]

\* an object recipient
Obj(t, s, k) ==
    [isString |-> FALSE, value |-> Undefined, type |-> t,
     subscriberId |-> s, topicId |-> k]

\* JavaScript falsiness of a string-or-undefined value
Falsy(v) == v = Undefined \/ v = ""

\* JavaScript falsiness of a recipient value (objects are truthy)
FalsyValue(r) == r.isString /\ r.value = ""

\* entries of body.to of a trigger request
ToEntries ==
    { Str("u1"),
      Obj(Undefined, "u1", Undefined),
      Obj(SUBSCRIBER, "u2", Undefined),
      Obj(UNKNOWN, "u3", Undefined),
      Obj(TOPIC, Undefined, "tA") }

\* entries of command.recipients of MapTriggerRecipients.execute
Recipients ==
    { Str("u1"),
      Obj(Undefined, "u1", Undefined),
      Obj(UNKNOWN, "u3", Undefined),
      Obj(TOPIC, Undefined, "tA"),
      Obj(TOPIC, Undefined, Undefined) }

Lists(S, n) == UNION { [1..k -> S] : k \in 0..n }

\* body.to / command.recipients: an array, or one recipient on its own
ArrayOrOne(S, n) ==
    { [isArray |-> TRUE, items |-> s] : s \in Lists(S, n) }
    \cup { [isArray |-> FALSE, items |-> <<r>>] : r \in S }

ToValues == ArrayOrOne(ToEntries, MaxTo)

RecipientValues == ArrayOrOne(Recipients, MaxRecipients)

\* body.actor: <<>> when absent
Actors ==
    { <<>>, <<Str("")>>, <<Str("u1")>>, <<Obj(Undefined, "u2", Undefined)>>,
      <<Obj(TOPIC, Undefined, "tA")>> }

SuppliedTransactionIds == { Undefined, "", "tx1" }

Uuids == { "uuid1", "uuid2" }

\* @UserSession() user
User == [_id |-> "usr1", environmentId |-> "env1", organizationId |-> "org1"]

\* answers of a successful GetTopicSubscribersUseCase.execute
MemberLists == { <<>>, <<"u1">>, <<"u2", "u1">> }

----------------------------------------------------------------------------
(* Pure helpers of both classes *)

\* Array.isArray(x) ? x : [x]   (lines 186, 256)
ToArray(to) == IF to.isArray THEN to.items ELSE <<Head(to.items)>>

\* the filter callback of aggregateSubscribers (lines 188-194)
AggregateKeeps(element) ==
    IF element.isString \/ Falsy(element.type)
    THEN TRUE
    ELSE element.type = SUBSCRIBER

aggregateSubscribers(b) == SelectSeq(ToArray(b.to), AggregateKeeps)

\* mapSubscriber of both classes (lines 207-213, 308-314)
mapSubscriber(subscriber) ==
    IF subscriber.isString
    THEN Obj(Undefined, subscriber.value, Undefined)
    ELSE subscriber

\* subscribers.map(this.mapSubscriber) (lines 197-199)
mapSubscribers(subscribers) ==
    [i \in 1..Len(subscribers) |-> mapSubscriber(subscribers[i])]

\* mapActor (lines 201-205); <<>> is undefined
mapActor(actor) ==
    IF actor = <<>> \/ FalsyValue(actor[1])
    THEN <<>>
    ELSE <<mapSubscriber(actor[1])>>

\* the calls mapActor makes
mapActorEvents(actor) ==
    IF actor = <<>> \/ FalsyValue(actor[1])
    THEN <<"mapActor">>
    ELSE <<"mapActor", "mapSubscriber">>

\* faulty variant: the supplied id is ignored and a fresh one always used
ResolveTransactionId_alwaysFresh(supplied, uuid) == uuid

\* const transactionId = body.transactionId || uuidv4()
ResolveTransactionId(supplied, uuid) ==
    IF Falsy(supplied) THEN uuid ELSE supplied

isNotTopic(recipient) == recipient.isString \/ recipient.type # TOPIC

isTopic(recipient) == recipient.type = TOPIC

\* recipients.filter(isNotTopic).map(this.mapSubscriber) (line 320)
findSubscribers(recipients) ==
    LET kept == SelectSeq(recipients, isNotTopic)
    IN  [i \in 1..Len(kept) |-> mapSubscriber(kept[i])]

findTopics(recipients) == SelectSeq(recipients, isTopic)

\* topic?.topicId || ''
TopicIdOf(topic) == IF Falsy(topic.topicId) THEN "" ELSE topic.topicId

\* subscribers.forEach((subscriber) => topicSubscribers.push({ subscriberId }))
PushAll(acc, subscribers) ==
    acc \o [i \in 1..Len(subscribers) |->
              Obj(Undefined, subscribers[i], Undefined)]

----------------------------------------------------------------------------
(* State *)

NoBody == [to |-> [isArray |-> TRUE, items |-> <<>>], actor |-> <<>>,
           transactionId |-> Undefined]

NoCommand == [recipients |-> [isArray |-> TRUE, items |-> <<>>],
              transactionId |-> Undefined, environmentId |-> Undefined,
              organizationId |-> Undefined, userId |-> Undefined]

Init ==
    /\ op = "none"
    /\ pc = "idle"
    /\ body = NoBody
    /\ transactionId = Undefined
    /\ generated = <<>>
    /\ mappedSubscribers = <<>>
    /\ mappedActor = <<>>
    /\ validatorCalls = <<>>
    /\ dispatched = <<>>
    /\ events = <<>>
    /\ command = NoCommand
    /\ simpleSubscribers = <<>>
    /\ topics = <<>>
    /\ idx = 0
    /\ topicSubscribers = <<>>
    /\ result = <<>>
    /\ resolverCalls = <<>>
    /\ outcomes = <<>>
    /\ logCalls = <<>>
    /\ logStatus = <<>>

----------------------------------------------------------------------------
(* EventsController *)

\* a request arrives; line 69 / 121
BeginRequest(kind, b) ==
    /\ op = "none"
    /\ op' = kind
    /\ body' = b
    /\ \E uuid \in (IF Falsy(b.transactionId) THEN Uuids ELSE {Undefined}) :
         /\ transactionId' = ResolveTransactionId(b.transactionId, uuid)
         /\ generated' = IF Falsy(b.transactionId) THEN <<uuid>> ELSE <<>>
    /\ pc' = "validate"
    /\ UNCHANGED <<mappedSubscribers, mappedActor, validatorCalls,
                   dispatched, events>>
    /\ UNCHANGED mapVars

TrackEventStart ==
    \E to \in ToValues, actor \in Actors, tx \in SuppliedTransactionIds :
        BeginRequest("trackEvent",
                     [to |-> to, actor |-> actor, transactionId |-> tx])

\* TriggerEventToAllRequestDto has no "to"
TrackEventToAllStart ==
    \E actor \in Actors, tx \in SuppliedTransactionIds :
        BeginRequest("trackEventToAll",
                     [to |-> NoBody.to, actor |-> actor,
                      transactionId |-> tx])

\* arguments of validateTransactionIdProperty (lines 73, 122) and its answer
ValidatorCall(answer) ==
    [transactionId |-> transactionId,
     organizationId |-> User.organizationId,
     environmentId |-> User.environmentId,
     answer |-> answer]

\* await validateTransactionIdProperty(...) resolves (lines 73, 122)
ValidateOk ==
    /\ op \in {"trackEvent", "trackEventToAll"}
    /\ pc = "validate"
    /\ validatorCalls' = Append(validatorCalls, ValidatorCall("ok"))
    /\ events' = Append(events, "validate")
    /\ pc' = "map"
    /\ UNCHANGED <<op, body, transactionId, generated, mappedSubscribers,
                   mappedActor, dispatched>>
    /\ UNCHANGED mapVars

\* faulty variant: the rejection of the validator is swallowed
ValidateFail_continues ==
    /\ op \in {"trackEvent", "trackEventToAll"}
    /\ pc = "validate"
    /\ validatorCalls' = Append(validatorCalls, ValidatorCall("rejected"))
    /\ events' = Append(events, "validate")
    /\ pc' = "map"
    /\ UNCHANGED <<op, body, transactionId, generated, mappedSubscribers,
                   mappedActor, dispatched>>
    /\ UNCHANGED mapVars

\* await validateTransactionIdProperty(...) rejects: the handler rejects too
ValidateFail ==
    /\ op \in {"trackEvent", "trackEventToAll"}
    /\ pc = "validate"
    /\ validatorCalls' = Append(validatorCalls, ValidatorCall("rejected"))
    /\ events' = Append(events, "validate")
    /\ pc' = "invalid"
    /\ UNCHANGED <<op, body, transactionId, generated, mappedSubscribers,
                   mappedActor, dispatched>>
    /\ UNCHANGED mapVars

\* lines 75-78
TrackEventMap ==
    /\ op = "trackEvent"
    /\ pc = "map"
    /\ LET subscribers == aggregateSubscribers(body)
       IN  /\ mappedSubscribers' = mapSubscribers(subscribers)
           /\ mappedActor' = mapActor(body.actor)
           /\ events' = events \o <<"aggregateSubscribers">>
                          \o [i \in 1..Len(subscribers) |-> "mapSubscriber"]
                          \o mapActorEvents(body.actor)
    /\ pc' = "dispatch"
    /\ UNCHANGED <<op, body, transactionId, generated, validatorCalls,
                   dispatched>>
    /\ UNCHANGED mapVars

\* TriggerEventCommand.create({...}) of lines 81-91
TriggerEventCommand ==
    [userId |-> User._id,
     environmentId |-> User.environmentId,
     organizationId |-> User.organizationId,
     to |-> mappedSubscribers,
     actor |-> mappedActor,
     transactionId |-> transactionId]

\* await this.triggerEvent.execute(...) (lines 80-94); it may reject
TrackEventDispatch ==
    /\ op = "trackEvent"
    /\ pc = "dispatch"
    /\ dispatched' = Append(dispatched, TriggerEventCommand)
    /\ events' = Append(events, "dispatch")
    /\ pc' \in {"done", "failed"}
    /\ UNCHANGED <<op, body, transactionId, generated, mappedSubscribers,
                   mappedActor, validatorCalls>>
    /\ UNCHANGED mapVars

\* faulty variant: the broadcast handler runs the recipient path of lines 75-77
TrackEventToAllMap_mapsRecipients ==
    /\ op = "trackEventToAll"
    /\ pc = "map"
    /\ LET subscribers == aggregateSubscribers(body)
       IN  /\ mappedSubscribers' = mapSubscribers(subscribers)
           /\ mappedActor' = mapActor(body.actor)
           /\ events' = events \o <<"aggregateSubscribers">>
                          \o [i \in 1..Len(subscribers) |-> "mapSubscriber"]
                          \o mapActorEvents(body.actor)
    /\ pc' = "dispatch"
    /\ UNCHANGED <<op, body, transactionId, generated, validatorCalls,
                   dispatched>>
    /\ UNCHANGED mapVars

\* line 123
TrackEventToAllMap ==
    /\ op = "trackEventToAll"
    /\ pc = "map"
    /\ mappedActor' = mapActor(body.actor)
    /\ events' = events \o mapActorEvents(body.actor)
    /\ pc' = "dispatch"
    /\ UNCHANGED <<op, body, transactionId, generated, mappedSubscribers,
                   validatorCalls, dispatched>>
    /\ UNCHANGED mapVars

\* TriggerEventToAllCommand.create({...}) of lines 126-135: no "to"
TriggerEventToAllCommand ==
    [userId |-> User._id,
     environmentId |-> User.environmentId,
     organizationId |-> User.organizationId,
     to |-> <<>>,
     actor |-> mappedActor,
     transactionId |-> transactionId]

\* return this.triggerEventToAll.execute(...) (lines 125-136)
TrackEventToAllDispatch ==
    /\ op = "trackEventToAll"
    /\ pc = "dispatch"
    /\ dispatched' = Append(dispatched, TriggerEventToAllCommand)
    /\ events' = Append(events, "dispatchBroadcast")
    /\ pc' \in {"done", "failed"}
    /\ UNCHANGED <<op, body, transactionId, generated, mappedSubscribers,
                   mappedActor, validatorCalls>>
    /\ UNCHANGED mapVars

\* the operation is over and its request-local state is dropped
Finish ==
    /\ pc \in {"done", "failed", "invalid", "returned", "raised"}
    /\ op' = "none"
    /\ pc' = "idle"
    /\ body' = NoBody
    /\ transactionId' = Undefined
    /\ generated' = <<>>
    /\ mappedSubscribers' = <<>>
    /\ mappedActor' = <<>>
    /\ validatorCalls' = <<>>
    /\ dispatched' = <<>>
    /\ events' = <<>>
    /\ command' = NoCommand
    /\ simpleSubscribers' = <<>>
    /\ topics' = <<>>
    /\ idx' = 0
    /\ topicSubscribers' = <<>>
    /\ result' = <<>>
    /\ resolverCalls' = <<>>
    /\ outcomes' = <<>>
    /\ logCalls' = <<>>
    /\ logStatus' = <<>>

----------------------------------------------------------------------------
(* MapTriggerRecipients *)

Commands ==
    { [recipients |-> to, transactionId |-> tx, environmentId |-> "env1",
       organizationId |-> "org1", userId |-> "usr1"] :
        to \in RecipientValues, tx \in {"tx1", "tx2"} }

\* execute is called: lines 254-258 and, inside getSubscribersFromAllTopics,
\* lines 278-280, up to the first await of the loop
ExecuteStart ==
    /\ op = "none"
    /\ \E c \in Commands :
         LET mappedRecipients == ToArray(c.recipients)
         IN  /\ command' = c
             /\ simpleSubscribers' = findSubscribers(mappedRecipients)
             /\ topics' = findTopics(mappedRecipients)
    /\ topicSubscribers' = <<>>
    /\ idx' = 1
    /\ op' = "execute"
    /\ pc' = "loop"
    /\ events' = <<"findSubscribers", "findTopics">>
    /\ UNCHANGED <<result, resolverCalls, outcomes, logCalls, logStatus>>
    /\ UNCHANGED ctlVars

\* GetTopicSubscribersCommand.create({...}) of lines 284-289
GetTopicSubscribersCommand(topic) ==
    [environmentId |-> command.environmentId,
     topicId |-> TopicIdOf(topic),
     organizationId |-> command.organizationId,
     userId |-> command.userId]

\* faulty variant: raw.topicId is topic.topicId without the  || ''  fallback
CreateLogCommand_rawTopicId(topic) ==
    [transactionId |-> command.transactionId,
     status |-> "error",
     environmentId |-> command.environmentId,
     organizationId |-> command.organizationId,
     text |-> "Failed retrieving topic subscribers",
     userId |-> command.userId,
     code |-> "TOPIC_SUBSCRIBERS_ERROR",
     raw |-> [topicId |-> topic.topicId]]

\* CreateLogCommand.create({...}) built from the payload of lines 295-301
CreateLogCommand(topic) ==
    [transactionId |-> command.transactionId,
     status |-> "error",
     environmentId |-> command.environmentId,
     organizationId |-> command.organizationId,
     text |-> "Failed retrieving topic subscribers",
     userId |-> command.userId,
     code |-> "TOPIC_SUBSCRIBERS_ERROR",
     raw |-> [topicId |-> TopicIdOf(topic)]]

\* one iteration whose resolver call resolves (lines 283-293)
GetTopicSubscribersOk ==
    /\ op = "execute"
    /\ pc = "loop"
    /\ idx <= Len(topics)
    /\ \E subscribers \in MemberLists :
         /\ outcomes' = Append(outcomes, [ok |-> TRUE, members |-> subscribers])
         /\ topicSubscribers' = PushAll(topicSubscribers, subscribers)
    /\ resolverCalls' =
         Append(resolverCalls, GetTopicSubscribersCommand(topics[idx]))
    /\ events' = Append(events, "getTopicSubscribers")
    /\ idx' = idx + 1
    /\ UNCHANGED <<op, pc, command, simpleSubscribers, topics, result,
                   logCalls, logStatus>>
    /\ UNCHANGED ctlVars

\* faulty variant: no try/catch around the resolver call, execute rejects
GetTopicSubscribersFail_rethrow ==
    /\ op = "execute"
    /\ pc = "loop"
    /\ idx <= Len(topics)
    /\ outcomes' = Append(outcomes, [ok |-> FALSE, members |-> <<>>])
    /\ resolverCalls' =
         Append(resolverCalls, GetTopicSubscribersCommand(topics[idx]))
    /\ events' = Append(events, "getTopicSubscribers")
    /\ pc' = "raised"
    /\ UNCHANGED <<op, command, simpleSubscribers, topics, idx,
                   topicSubscribers, result, logCalls, logStatus>>
    /\ UNCHANGED ctlVars

\* one iteration whose resolver call rejects: the catch block of lines
\* 294-302 starts the log call and does not await it
GetTopicSubscribersFail ==
    /\ op = "execute"
    /\ pc = "loop"
    /\ idx <= Len(topics)
    /\ outcomes' = Append(outcomes, [ok |-> FALSE, members |-> <<>>])
    /\ resolverCalls' =
         Append(resolverCalls, GetTopicSubscribersCommand(topics[idx]))
    /\ logCalls' = Append(logCalls, CreateLogCommand(topics[idx]))
    /\ logStatus' = Append(logStatus, "pending")
    /\ events' = events \o <<"getTopicSubscribers", "createLog">>
    /\ idx' = idx + 1
    /\ UNCHANGED <<op, pc, command, simpleSubscribers, topics,
                   topicSubscribers, result>>
    /\ UNCHANGED ctlVars

\* faulty variant: the two parts are concatenated the other way round
ExecuteReturn_topicsFirst ==
    /\ op = "execute"
    /\ pc = "loop"
    /\ idx > Len(topics)
    /\ result' = topicSubscribers \o simpleSubscribers
    /\ pc' = "returned"
    /\ UNCHANGED <<op, command, simpleSubscribers, topics, idx,
                   topicSubscribers, resolverCalls, outcomes, logCalls,
                   logStatus, events>>
    /\ UNCHANGED ctlVars

\* the loop is over: return topicSubscribers (line 305) and
\* return [...simpleSubscribers, ...topicSubscribers] (line 268)
ExecuteReturn ==
    /\ op = "execute"
    /\ pc = "loop"
    /\ idx > Len(topics)
    /\ result' = simpleSubscribers \o topicSubscribers
    /\ pc' = "returned"
    /\ UNCHANGED <<op, command, simpleSubscribers, topics, idx,
                   topicSubscribers, resolverCalls, outcomes, logCalls,
                   logStatus, events>>
    /\ UNCHANGED ctlVars

\* the promise of a createLog.execute call resolves (lines 336-350)
CreateLogResolve ==
    /\ op = "execute"
    /\ \E i \in 1..Len(logStatus) :
         /\ logStatus[i] = "pending"
         /\ logStatus' = [logStatus EXCEPT ![i] = "resolved"]
    /\ UNCHANGED <<op, pc, command, simpleSubscribers, topics, idx,
                   topicSubscribers, result, resolverCalls, outcomes,
                   logCalls, events>>
    /\ UNCHANGED ctlVars

\* faulty variant: the log promise has no .catch and is awaited, so its
\* rejection ends execute
CreateLogReject_propagates ==
    /\ op = "execute"
    /\ \E i \in 1..Len(logStatus) :
         /\ logStatus[i] = "pending"
         /\ logStatus' = [logStatus EXCEPT ![i] = "caught"]
    /\ pc' = "raised"
    /\ UNCHANGED <<op, command, simpleSubscribers, topics, idx,
                   topicSubscribers, result, resolverCalls, outcomes,
                   logCalls, events>>
    /\ UNCHANGED ctlVars

\* the promise of a createLog.execute call rejects and the handler of
\* line 352 consumes the rejection
CreateLogReject ==
    /\ op = "execute"
    /\ \E i \in 1..Len(logStatus) :
         /\ logStatus[i] = "pending"
         /\ logStatus' = [logStatus EXCEPT ![i] = "caught"]
    /\ UNCHANGED <<op, pc, command, simpleSubscribers, topics, idx,
                   topicSubscribers, result, resolverCalls, outcomes,
                   logCalls, events>>
    /\ UNCHANGED ctlVars

----------------------------------------------------------------------------

Next ==
    \/ TrackEventStart
    \/ TrackEventToAllStart
    \/ ValidateOk
    \/ ValidateFail
    \/ TrackEventMap
    \/ TrackEventDispatch
    \/ TrackEventToAllMap
    \/ TrackEventToAllDispatch
    \/ ExecuteStart
    \/ GetTopicSubscribersOk
    \/ GetTopicSubscribersFail
    \/ ExecuteReturn
    \/ CreateLogResolve
    \/ CreateLogReject
    \/ Finish

Spec == Init /\ [][Next]_vars

TypeOK ==
    /\ op \in {"none", "trackEvent", "trackEventToAll", "execute"}
    /\ pc \in {"idle", "validate", "map", "dispatch", "done", "failed",
               "invalid", "loop", "returned", "raised"}
    /\ Len(outcomes) = Len(resolverCalls)
    /\ Len(logCalls) = Len(logStatus)

----------------------------------------------------------------------------
(* Vocabulary of the properties *)

Count(e) == Cardinality({ i \in 1..Len(events) : events[i] = e })

IsController == op \in {"trackEvent", "trackEventToAll"}

\* the request's recipient list as handed to execute
InputList == ToArray(command.recipients)

\* spec 4.1: a string is Direct, a structured value is Topic only when its
\* discriminator is the topic marker
IsTopicReference(r) == ~r.isString /\ r.type = TOPIC

IsDirect(r) == ~IsTopicReference(r)

\* spec 4.1 mapToResolvedSubscriber
Resolved(r) ==
    IF r.isString
    THEN [isString |-> FALSE, value |-> Undefined, type |-> Undefined,
          subscriberId |-> r.value, topicId |-> Undefined]
    ELSE r

FromMember(id) ==
    [isString |-> FALSE, value |-> Undefined, type |-> Undefined,
     subscriberId |-> id, topicId |-> Undefined]

IsOk(o) == o.ok

\* the member ids of a sequence of resolver answers, in order
RECURSIVE Members(_)
Members(outs) ==
    IF outs = <<>> THEN <<>> ELSE Head(outs).members \o Members(Tail(outs))

\* the topic references whose resolver call failed, in call order
FailedTopics ==
    LET refs == SelectSeq(InputList, IsTopicReference)
        RECURSIVE Pick(_)
        Pick(i) ==
            IF i > Len(outcomes) THEN <<>>
            ELSE (IF outcomes[i].ok THEN <<>> ELSE <<refs[i]>>) \o Pick(i + 1)
    IN  Pick(1)

----------------------------------------------------------------------------
(* Properties *)

\* C1: in trackEvent the dispatched "to" is the orchestrator's result: when
\* the "to" list holds a topic reference and the resolver answers each
\* topic with the members m, the dispatched "to" is the direct entries
\* followed by those members.
C1_DispatchedToIsResolved ==
    (op = "trackEvent" /\ dispatched # <<>>) =>
        LET list == ToArray(body.to)
            directs == SelectSeq(list, IsDirect)
            refs == SelectSeq(list, IsTopicReference)
        IN  \A m \in MemberLists :
              refs # <<>> =>
                dispatched[1].to =
                  [i \in 1..Len(directs) |-> Resolved(directs[i])]
                  \o Members([i \in 1..Len(refs) |->
                                [ok |-> TRUE,
                                 members |-> [j \in 1..Len(m) |->
                                                FromMember(m[j])]]])

\* C2: whichever resolver calls fail, execute does not raise, a failing
\* topic contributes nothing, and the topic-derived entries are those of
\* the succeeding topics alone, in their order.
C2_FailureIsolation ==
    op = "execute" =>
        LET survivors == Members(SelectSeq(outcomes, IsOk))
            expected == [j \in 1..Len(survivors) |-> FromMember(survivors[j])]
        IN  /\ pc # "raised"
            /\ topicSubscribers = expected
            /\ \A i \in 1..Len(outcomes) :
                 ~outcomes[i].ok => outcomes[i].members = <<>>
            /\ pc = "returned" =>
                 /\ Len(outcomes) = Len(SelectSeq(InputList, IsTopicReference))
                 /\ SubSeq(result, Len(result) - Len(expected) + 1,
                           Len(result)) = expected

C2_Witness ==
    /\ pc = "returned"
    /\ Len(outcomes) = 3
    /\ outcomes[1] = [ok |-> TRUE, members |-> <<"u2", "u1">>]
    /\ ~outcomes[2].ok
    /\ outcomes[3] = [ok |-> TRUE, members |-> <<"u1">>]
    /\ Len(topicSubscribers) = 3

\* C3: the result of execute is the direct entries, mapped, in input order,
\* followed by the members of each successful topic in input order and
\* resolver order; nothing is deduplicated.
C3_ResultOrder ==
    (op = "execute" /\ pc = "returned") =>
        LET directs == SelectSeq(InputList, IsDirect)
            refs == SelectSeq(InputList, IsTopicReference)
            members == Members(outcomes)
        IN  /\ Len(result) = Len(directs) + Len(members)
            /\ \A i \in 1..Len(directs) : result[i] = Resolved(directs[i])
            /\ \A j \in 1..Len(members) :
                 result[Len(directs) + j] = FromMember(members[j])
            /\ Len(resolverCalls) = Len(refs)
            /\ \A i \in 1..Len(refs) :
                 resolverCalls[i].topicId =
                   (IF refs[i].topicId = Undefined THEN "" ELSE refs[i].topicId)

\* a subscriber that is a direct entry and a member of two topics is there
\* three times
C3_Witness ==
    /\ pc = "returned"
    /\ InputList = <<Obj(TOPIC, Undefined, "tA"), Str("u1"),
                     Obj(TOPIC, Undefined, Undefined)>>
    /\ outcomes = <<[ok |-> TRUE, members |-> <<"u2", "u1">>],
                    [ok |-> TRUE, members |-> <<"u1">>]>>
    /\ Len(result) = 4
    /\ Cardinality({ i \in 1..4 : result[i].subscriberId = "u1" }) = 3

\* C4: with a topic-typed actor trackEvent stops at validation: nothing but
\* the transaction validator is called, no resolver call, no dispatch.
C4_TopicActorRejected ==
    (op = "trackEvent" /\ body.actor # <<>> /\ IsTopicReference(body.actor[1]))
        => /\ dispatched = <<>>
           /\ resolverCalls = <<>>
           /\ \A i \in 1..Len(events) : events[i] = "validate"

\* C5: the recipient filter of the controller classifies as findSubscribers
\* does, so an entry of an unknown kind is kept in the dispatched "to".
C5_UnknownKindKept ==
    (op = "trackEvent" /\ dispatched # <<>>) =>
        LET list == ToArray(body.to)
            directs == SelectSeq(list, IsDirect)
        IN  /\ dispatched[1].to = findSubscribers(list)
            /\ dispatched[1].to = [i \in 1..Len(directs) |-> Resolved(directs[i])]

\* C6: in both handlers the validator call comes first, exactly once, and
\* after a rejection nothing else is called, mapped or dispatched.
C6_ValidatorFirst ==
    IsController =>
        /\ events # <<>> => events[1] = "validate"
        /\ Count("validate") = Len(validatorCalls)
        /\ Len(validatorCalls) <= 1
        /\ (mappedSubscribers # <<>> \/ mappedActor # <<>> \/ dispatched # <<>>)
             => (validatorCalls # <<>> /\ validatorCalls[1].answer = "ok")
        /\ (validatorCalls # <<>> /\ validatorCalls[1].answer = "rejected")
             => /\ events = <<"validate">>
                /\ pc = "invalid"
                /\ dispatched = <<>>
                /\ resolverCalls = <<>>

C6_Witness ==
    /\ op = "trackEvent"
    /\ pc = "invalid"
    /\ validatorCalls # <<>>
    /\ validatorCalls[1].answer = "rejected"
    /\ body.actor = <<Str("u1")>>
    /\ body.to.items = <<Str("u1"), Obj(TOPIC, Undefined, "tA")>>

\* C7: a rejected log call changes nothing of recipient resolution: execute
\* does not raise, every topic is still asked, and the result is the one
\* the answers of the resolver alone determine.
C7_LogFailureIsolated ==
    (op = "execute" /\ \E i \in 1..Len(logStatus) : logStatus[i] = "caught") =>
        /\ pc \in {"loop", "returned"}
        /\ pc = "loop" => idx = Len(outcomes) + 1
        /\ pc = "returned" =>
             /\ Len(resolverCalls) = Len(findTopics(InputList))
             /\ result = findSubscribers(InputList)
                           \o PushAll(<<>>, Members(SelectSeq(outcomes, IsOk)))

\* the log of the first topic was rejected and the second topic still
\* delivered its members
C7_Witness ==
    /\ pc = "returned"
    /\ Len(outcomes) = 2
    /\ ~outcomes[1].ok
    /\ outcomes[2] = [ok |-> TRUE, members |-> <<"u2", "u1">>]
    /\ logStatus = <<"caught">>
    /\ Len(result) = Len(simpleSubscribers) + 2

\* C8: one log record per failed resolver call and none otherwise, each
\* with the topic id ('' when there is none) and the transaction id,
\* environment, organization and user of the command.
C8_OneRecordPerFailure ==
    op = "execute" =>
        /\ Len(logCalls) = Len(FailedTopics)
        /\ Count("createLog") = Len(FailedTopics)
        /\ \A j \in 1..Len(logCalls) :
             /\ j <= Len(FailedTopics)
             /\ logCalls[j].raw.topicId =
                  (IF FailedTopics[j].topicId = Undefined
                   THEN "" ELSE FailedTopics[j].topicId)
             /\ logCalls[j].transactionId = command.transactionId
             /\ logCalls[j].environmentId = command.environmentId
             /\ logCalls[j].organizationId = command.organizationId
             /\ logCalls[j].userId = command.userId

C8_Witness ==
    /\ pc = "returned"
    /\ command.transactionId = "tx2"
    /\ Len(outcomes) = 3
    /\ outcomes[1].ok
    /\ Len(logCalls) = 2
    /\ logCalls[1].raw.topicId = ""
    /\ logCalls[2].raw.topicId = "tA"

C10_SuppliedIdUsed ==
    (IsController /\ pc # "validate") =>
        LET expected == IF body.transactionId # Undefined
                        THEN <<body.transactionId>> ELSE generated
        IN  /\ expected # <<>>
            /\ \A i \in 1..Len(validatorCalls) :
                 validatorCalls[i].transactionId = expected[1]
            /\ \A i \in 1..Len(dispatched) :
                 dispatched[i].transactionId = expected[1]

\* C10 amended: ... the supplied id whenever a non-empty one was supplied,
\* and a generated one otherwise (also when the supplied id is '').
C10_TransactionIdEstablishedOnce ==
    (IsController /\ pc # "validate") =>
        LET supplied == body.transactionId
            expected == IF supplied # Undefined /\ supplied # ""
                        THEN <<supplied>> ELSE generated
        IN  /\ expected # <<>>
            /\ expected[1] \in (IF supplied \in {Undefined, ""}
                                THEN Uuids ELSE {supplied})
            /\ Len(validatorCalls) = 1
            /\ \A i \in 1..Len(validatorCalls) :
                 validatorCalls[i].transactionId = expected[1]
            /\ \A i \in 1..Len(dispatched) :
                 dispatched[i].transactionId = expected[1]

C10_Witness ==
    /\ op = "trackEvent"
    /\ pc = "done"
    /\ body.transactionId = ""
    /\ generated = <<"uuid2">>
    /\ validatorCalls[1].transactionId = "uuid2"
    /\ dispatched[1].transactionId = "uuid2"

====
